---- MODULE Spec2Model ----
(***************************************************************************)
(* Model of the JWT authentication / session-rotation core of the Todo     *)
(* backend: backend/src/utils/jwt_utils.py (token codec, password hasher), *)
(* backend/src/models/models.py (users and sessions tables) and            *)
(* backend/src/services/auth_service.py (register, login, refresh with     *)
(* rotation, logout, current-user resolution).                             *)
(*                                                                         *)
(* Time is counted in ticks, TicksPerSecond ticks to the second:           *)
(* datetime.utcnow() has sub-second resolution while the exp and iat       *)
(* claims of a token are whole seconds.  The database is a PostgreSQL      *)
(* database at its default isolation (READ COMMITTED): a select reads the  *)
(* committed rows at the moment it runs, and the writes of a unit of work  *)
(* reach the database together when db.commit() flushes and commits.       *)
(***************************************************************************)
EXTENDS Integers, FiniteSets, Sequences, TLC

\* ---------------------------------------------------------------- bounds
TicksPerSecond == 2
\* settings.access_token_expire_minutes, scaled to seconds of the model
AccessTTL == 1
\* settings.refresh_token_expire_days, scaled to seconds of the model
RefreshTTL == 1
MaxClock == 4
MaxUsers == 2
MaxSessions == 3
NumProcs == 2
\* the clock of the runs in which requests overlap while time passes
MaxOverlapClock == 2
MaxTodos == 2
\* the clock of the runs of the todo requests
MaxTodoClock == 1
\* console app: the longest title typed, the create_task calls of a
\* session, the largest task id typed
MaxTitleLen == 2
MaxCreates == 4
MaxTaskId == 2

Procs == 1..NumProcs
Emails == {"a@x.com", "b@x.com"}
\* the address accounts are registered under
Registrants == {"a@x.com"}
Passwords == {"password123", "wrongpass"}
\* the password every account is registered with
RegisterPasswords == {"password123"}
Salts == {"salt"}

\* revoked_at IS NULL
NULL == -1

\* -------------------------------------------------------------- settings
jwt_secret_key == "configured-secret"
OtherSecret == "other-secret"

\* ----------------------------------------------------------- time helpers
\* timegm(dt.utctimetuple()): a datetime truncated to whole seconds
Sec(t) == t \div TicksPerSecond
\* timedelta(minutes=settings.access_token_expire_minutes), in ticks
AccessDelta == AccessTTL * TicksPerSecond
\* timedelta(days=settings.refresh_token_expire_days), in ticks
RefreshDelta == RefreshTTL * TicksPerSecond

\* -------------------------------------------------------- password hasher
\* pwd_context.hash: salted one-way hash, the salt embedded in the output
get_password_hash(password, salt) ==
    [alg |-> "bcrypt", salt |-> salt, digest |-> <<salt, password>>]

\* pwd_context.verify: re-hash with the embedded salt and compare
verify_password(plain_password, hashed_password) ==
    hashed_password.digest = <<hashed_password.salt, plain_password>>

\* ------------------------------------------------------------ token codec
\* A token string is determined by its claims and its signing key (HS256 is
\* deterministic), so a token is modelled as the record of both.
NoToken ==
    [fmt |-> "none", key |-> "", type |-> "", sub |-> 0, email |-> "",
     role |-> "", token_id |-> 0, exp |-> 0, iat |-> 0]

\* a string that is not a JWT at all
Malformed == [NoToken EXCEPT !.fmt = "garbage"]

\* jwt.encode(to_encode, settings.jwt_secret_key, ...)
Encode(claims, key) == [claims EXCEPT !.fmt = "jwt", !.key = key]

create_access_token(sub, email, role, t) ==
    Encode([NoToken EXCEPT !.sub = sub, !.email = email, !.role = role,
                           !.exp = Sec(t + AccessDelta), !.iat = Sec(t),
                           !.type = "access"], jwt_secret_key)

create_refresh_token(sub, token_id, t) ==
    Encode([NoToken EXCEPT !.sub = sub, !.token_id = token_id,
                           !.exp = Sec(t + RefreshDelta), !.iat = Sec(t),
                           !.type = "refresh"], jwt_secret_key)

Decoded(why) == [ok |-> why = "ok", why |-> why]

\* mutant: the signature is not checked
decode_token_NoSignature(token, t) ==
    IF token.fmt # "jwt" THEN Decoded("malformed")
    ELSE IF token.exp < Sec(t) THEN Decoded("expired")
    ELSE Decoded("ok")

\* mutant: the exp claim is not checked
decode_token_NoExpiry(token, t) ==
    IF token.fmt # "jwt" THEN Decoded("malformed")
    ELSE IF token.key # jwt_secret_key THEN Decoded("signature")
    ELSE Decoded("ok")

\* jwt.decode (python-jose): the signature first, then the exp claim against
\* the current time, both in whole seconds: the token is expired when
\* exp < now.  Every failure is a JWTError.
decode_token(token, t) ==
    IF token.fmt # "jwt" THEN Decoded("malformed")
    ELSE IF token.key # jwt_secret_key THEN Decoded("signature")
    ELSE IF token.exp < Sec(t) THEN Decoded("expired")
    ELSE Decoded("ok")

\* mutant: the type claim is not checked
verify_access_token_NoTypeCheck(token, t) == decode_token(token, t)

verify_access_token(token, t) ==
    LET payload == decode_token(token, t)
    IN  IF ~payload.ok THEN payload
        ELSE IF token.type # "access" THEN Decoded("type")
        ELSE payload

verify_refresh_token(token, t) ==
    LET payload == decode_token(token, t)
    IN  IF ~payload.ok THEN payload
        ELSE IF token.type # "refresh" THEN Decoded("type")
        ELSE payload

\* ---------------------------------------------------------------- results
NoUser == [id |-> 0, email |-> "", role |-> "", is_verified |-> FALSE]

\* mutant: the stored row itself, password_hash included, is returned
PublicUser_Exposing(u) == u

\* the "user" object of a token response: no password_hash
PublicUser(u) ==
    [id |-> u.id, email |-> u.email, role |-> u.role,
     is_verified |-> u.is_verified]

NoResult ==
    [kind |-> "none", status |-> 0, code |-> "", message |-> "",
     access |-> NoToken, refresh |-> NoToken, user |-> NoUser]

\* raise HTTPException(status_code=status, detail={code, message, details})
HttpError(status, code, message) ==
    [NoResult EXCEPT !.kind = "http", !.status = status, !.code = code,
                     !.message = message]

\* a JWTError raised by the token codec and not caught by the service
JwtError(why) == [NoResult EXCEPT !.kind = "jwt", !.code = why]

\* an error raised by the flush or commit (StaleDataError, IntegrityError)
DbError == [NoResult EXCEPT !.kind = "db"]

\* the dict returned by login_user and refresh_tokens
TokenResponse(access, refresh, u) ==
    [NoResult EXCEPT !.kind = "ok", !.status = 200, !.access = access,
                     !.refresh = refresh, !.user = PublicUser(u)]

\* get_current_user returns the User row
UserResult(u) ==
    [NoResult EXCEPT !.kind = "ok", !.status = 200, !.user = PublicUser(u)]

\* MessageResponse(message="Successfully logged out")
LoggedOut ==
    [NoResult EXCEPT !.kind = "ok", !.status = 200,
                     !.message = "Successfully logged out"]

Failed(res) == res.kind \in {"http", "jwt", "db"}

\* ------------------------------------------------------------------ state
VARIABLES
    now,            \* datetime.utcnow(), in ticks
    users,          \* committed rows of table users
    sessions,       \* committed rows of table sessions
    nextUid,        \* the next uuid4() drawn for a user id
    nextSid,        \* the next uuid4() drawn for a session id / token_id
    issued,         \* tokens handed to clients, with the tick of their issue
    proc,           \* the refresh and logout requests in flight
    rotCount,       \* history: successful refreshes per presented token_id
    loggedOut,      \* history: token_ids a logout has committed for
    logoutSeen,     \* history: everything the logout route has returned
    todos,          \* committed rows of table todos
    nextTid,        \* the next uuid4() drawn for a todo id
    tasks,          \* console app: StorageService._tasks
    next_id,        \* console app: StorageService._next_id
    createdIds,     \* console app, history: the ids create_task has returned
    registering             \* the register requests in flight and their last results

\* the todo tables of the backend
todoVars == <<todos, nextTid>>

\* the console application (src/main.py), a program of its own
consoleVars == <<tasks, next_id, createdIds>>

\* the register requests, one slot per concurrent request
registerVars == <<registering>>

vars == <<now, users, sessions, nextUid, nextSid, issued, proc, rotCount,
          loggedOut, logoutSeen, todoVars, consoleVars, registerVars>>

\* ------------------------------------------------------------- data model
\* class User: id, email (unique), password_hash, role, is_verified
UserRow(id, email, password_hash) ==
    [id |-> id, email |-> email, password_hash |-> password_hash,
     role |-> "user", is_verified |-> FALSE]

\* class Session: id, user_id, refresh_token (unique), expires_at,
\* revoked_at.  rotated_from, revoked_by and access_token are history fields
\* of the model: the session whose refresh created this row (0: a login),
\* the operation that last wrote revoked_at, and the access token that was
\* returned in one pair with refresh_token.
SessionRow(id, user_id, refresh_token, expires_at, rotated_from, access) ==
    [id |-> id, user_id |-> user_id, refresh_token |-> refresh_token,
     expires_at |-> expires_at, revoked_at |-> NULL,
     rotated_from |-> rotated_from, revoked_by |-> "",
     access_token |-> access]

\* session.revoked_at = datetime.utcnow(), as the flush writes it
Revoke(s, t, by) == [s EXCEPT !.revoked_at = t, !.revoked_by = by]

IssuedTokens == {i.tok : i \in issued}

\* What a client can present: every token it was handed, the same claims
\* signed with another secret, and a string that is no JWT.
Presentable ==
    IssuedTokens \cup {[t EXCEPT !.key = OtherSecret] : t \in IssuedTokens}
                 \cup {Malformed}

\* ------------------------------------------------------ request positions
\* A request in flight: where it stands (pc), the token presented, the ids
\* of the Session objects it loaded (sel), the revoked_at it assigned to
\* them in its unit of work (rvk), the user it loaded (user) and the tick at
\* which it built its new tokens (at).
Idle ==
    [pc |-> "idle", tok |-> NoToken, sel |-> {}, rvk |-> NULL,
     user |-> NoUser, at |-> NULL]

InFlight(p) == proc[p].pc # "idle"

\* A register request: where it stands (pc), the email it is for, the User
\* object it built and added to its session (new_user) and what the last
\* finished call of the slot returned or raised (res).
NoUserRow == UserRow(0, "", get_password_hash("", ""))

NoRegistration ==
    [pc |-> "idle", email |-> "", new_user |-> NoUserRow, res |-> NoResult]

Init ==
    /\ now = 0
    /\ users = {}
    /\ sessions = {}
    /\ nextUid = 1
    /\ nextSid = 1
    /\ issued = {}
    /\ proc = [p \in Procs |-> Idle]
    /\ rotCount = [k \in 1..MaxSessions |-> 0]
    /\ loggedOut = {}
    /\ logoutSeen = {}
    /\ todos = {}
    /\ nextTid = 1
    /\ tasks = {}
    /\ next_id = 1
    /\ createdIds = <<>>
    /\ registering = [p \in Procs |-> NoRegistration]

\* ------------------------------------------------------------------ clock
Tick ==
    /\ now < MaxClock
    /\ now' = now + 1
    /\ UNCHANGED <<todoVars, consoleVars, registerVars,
                   users, sessions, nextUid, nextSid, issued, proc, rotCount,
                   loggedOut, logoutSeen>>

\* --------------------------------------------------------------- register
EmailAlreadyExists ==
    HttpError(400, "EMAIL_ALREADY_EXISTS",
              "An account with this email already exists")

\* mutant: the existence check is missing, the row is always inserted
register_user_NoCheck(us, email, password, salt, id) ==
    LET new_user == UserRow(id, email, get_password_hash(password, salt))
    IN  [users |-> us \cup {new_user}, res |-> UserResult(new_user)]

\* register_user: select by email; EMAIL_ALREADY_EXISTS, or insert and commit
register_user(us, email, password, salt, id) ==
    IF \E u \in us : u.email = email
    THEN [users |-> us, res |-> EmailAlreadyExists]
    ELSE LET new_user == UserRow(id, email, get_password_hash(password, salt))
         IN  [users |-> us \cup {new_user}, res |-> UserResult(new_user)]

Register(email, password, salt) ==
    LET r == register_user(users, email, password, salt, nextUid)
    IN  /\ r.res.kind = "ok" => nextUid <= MaxUsers
        /\ users' = r.users
        /\ nextUid' = IF r.res.kind = "ok" THEN nextUid + 1 ELSE nextUid
        /\ UNCHANGED <<todoVars, consoleVars, registerVars,
                       now, sessions, nextSid, issued, proc, rotCount,
                       loggedOut, logoutSeen>>

\* the unique index on users.email: the INSERT of row is accepted
EmailUnique(us, row) == \A u \in us : u.email # row.email

\* register_user up to db.add: the select by email, then
\* EMAIL_ALREADY_EXISTS, or the password hash and the new User object
RegisterBegin(p, email, password, salt) ==
    LET r == register_user(users, email, password, salt, nextUid)
    IN  /\ registering[p].pc = "idle"
        /\ IF r.res.kind # "ok"
           THEN /\ registering' = [registering EXCEPT ![p] =
                      [pc |-> "idle", email |-> email,
                       new_user |-> NoUserRow, res |-> r.res]]
                /\ UNCHANGED nextUid
           ELSE /\ nextUid <= MaxUsers
                /\ registering' = [registering EXCEPT ![p] =
                      [pc |-> "added", email |-> email,
                       new_user |-> CHOOSE u \in r.users : u.id = nextUid,
                       res |-> NoResult]]
                /\ nextUid' = nextUid + 1
        /\ UNCHANGED <<todoVars, consoleVars,
                       now, users, sessions, nextSid, issued, proc, rotCount,
                       loggedOut, logoutSeen>>

\* register_user from db.commit: the INSERT is flushed and committed, or
\* the unique index refuses it and commit raises IntegrityError, which
\* nothing in register_user or in the route catches
RegisterCommit(p) ==
    LET new_user == registering[p].new_user
    IN  /\ registering[p].pc = "added"
        /\ IF EmailUnique(users, new_user)
           THEN /\ users' = users \cup {new_user}
                /\ registering' = [registering EXCEPT ![p].pc = "idle",
                                      ![p].res = UserResult(new_user)]
           ELSE /\ users' = users
                /\ registering' = [registering EXCEPT ![p].pc = "idle", ![p].res = DbError]
        /\ UNCHANGED <<todoVars, consoleVars,
                       now, sessions, nextUid, nextSid, issued, proc,
                       rotCount, loggedOut, logoutSeen>>

\* ------------------------------------------------------------------ login
InvalidCredentials ==
    HttpError(401, "INVALID_CREDENTIALS", "Invalid email or password")

\* mutant: an unknown email has an error of its own
authenticate_user_Enumerating(us, email, password) ==
    LET found == {u \in us : u.email = email}
    IN  IF found = {}
        THEN [ok |-> FALSE, user |-> NoUser,
              res |-> HttpError(404, "USER_NOT_FOUND", "User not found")]
        ELSE LET user == CHOOSE u \in found : TRUE
             IN  IF ~verify_password(password, user.password_hash)
                 THEN [ok |-> FALSE, user |-> NoUser,
                       res |-> InvalidCredentials]
                 ELSE [ok |-> TRUE, user |-> user, res |-> NoResult]

\* authenticate_user: select by email, then
\* "if not user or not verify_password(password, user.password_hash)"
authenticate_user(us, email, password) ==
    LET found == {u \in us : u.email = email}
    IN  IF found = {} THEN [ok |-> FALSE, user |-> NoUser,
                            res |-> InvalidCredentials]
        ELSE LET user == CHOOSE u \in found : TRUE
             IN  IF ~verify_password(password, user.password_hash)
                 THEN [ok |-> FALSE, user |-> NoUser,
                       res |-> InvalidCredentials]
                 ELSE [ok |-> TRUE, user |-> user, res |-> NoResult]

\* mutant: the tokens are returned but no session is stored
login_user_NoSession(us, email, password, id, t) ==
    LET a == authenticate_user(us, email, password)
        access_token == create_access_token(a.user.id, a.user.email,
                                            a.user.role, t)
        refresh_token == create_refresh_token(a.user.id, id, t)
    IN  IF ~a.ok
        THEN [ok |-> FALSE, res |-> a.res, added |-> {}]
        ELSE [ok |-> TRUE,
              res |-> TokenResponse(access_token, refresh_token, a.user),
              added |-> {}]

\* login_user: authenticate (INVALID_CREDENTIALS propagates), create both
\* tokens, build the Session row, and return the pair with the public fields
\* of the user
login_user(us, email, password, id, t) ==
    LET a == authenticate_user(us, email, password)
        access_token == create_access_token(a.user.id, a.user.email,
                                            a.user.role, t)
        refresh_token == create_refresh_token(a.user.id, id, t)
    IN  IF ~a.ok
        THEN [ok |-> FALSE, res |-> a.res, added |-> {}]
        ELSE [ok |-> TRUE,
              res |-> TokenResponse(access_token, refresh_token, a.user),
              added |-> {SessionRow(id, a.user.id, refresh_token,
                                    t + RefreshDelta, 0, access_token)}]

\* POST /login: db.add(new_session), db.commit() and the response
Login(email, password) ==
    LET r == login_user(users, email, password, nextSid, now)
    IN  IF r.ok
        THEN /\ nextSid <= MaxSessions
             /\ sessions' = sessions \cup r.added
             /\ nextSid' = nextSid + 1
             /\ issued' = issued \cup {[tok |-> r.res.access, at |-> now],
                                       [tok |-> r.res.refresh, at |-> now]}
             /\ UNCHANGED <<todoVars, consoleVars, registerVars,
                            now, users, nextUid, proc, rotCount, loggedOut,
                            logoutSeen>>
        ELSE \* raise INVALID_CREDENTIALS: nothing is written
             UNCHANGED vars

\* ------------------------------------------------------- get_current_user
UserNotFound == HttpError(401, "USER_NOT_FOUND", "User not found")

\* mutant: a missing user row is not noticed, the claims are trusted
get_current_user_TrustingClaims(us, token, t) ==
    LET payload == verify_access_token(token, t)
        found == {u \in us : u.id = token.sub}
    IN  IF ~payload.ok THEN JwtError(payload.why)
        ELSE IF found = {}
             THEN UserResult([id |-> token.sub, email |-> token.email,
                              role |-> token.role, is_verified |-> FALSE])
        ELSE UserResult(CHOOSE u \in found : TRUE)

\* mutant: the token is accepted only while a session it was issued with is
\* active
get_current_user_SessionBound(us, token, t) ==
    LET payload == verify_access_token(token, t)
        found == {u \in us : u.id = token.sub}
    IN  IF ~payload.ok THEN JwtError(payload.why)
        ELSE IF ~\E s \in sessions :
                     s.access_token = token /\ s.revoked_at = NULL
             THEN HttpError(401, "SESSION_REVOKED", "Session has been revoked")
        ELSE IF found = {} THEN UserNotFound
        ELSE UserResult(CHOOSE u \in found : TRUE)

\* get_current_user: verify_access_token (a JWTError propagates), select the
\* user by the sub claim, USER_NOT_FOUND when there is none
get_current_user(us, token, t) ==
    LET payload == verify_access_token(token, t)
        found == {u \in us : u.id = token.sub}
    IN  IF ~payload.ok THEN JwtError(payload.why)
        ELSE IF found = {} THEN UserNotFound
        ELSE UserResult(CHOOSE u \in found : TRUE)

\* GET /me and every protected route: reads only
Me(token) ==
    /\ get_current_user(users, token, now) # NoResult
    /\ UNCHANGED vars

\* ---------------------------------------------------------------- refresh
InvalidRefreshToken ==
    HttpError(401, "INVALID_REFRESH_TOKEN",
              "Refresh token not found or revoked")

RefreshTokenExpired ==
    HttpError(401, "REFRESH_TOKEN_EXPIRED", "Refresh token has expired")

\* mutant: the select forgets "revoked_at IS NULL"
FindActiveSession_IgnoreRevoked(ss, token) ==
    {s \in ss : s.refresh_token = token /\ s.user_id = token.sub}

\* mutant: the select leaves out "Session.user_id == user_id"
FindActiveSession_AnyUser(ss, token) ==
    {s \in ss : /\ s.refresh_token = token
                /\ s.revoked_at = NULL}

\* select(Session).where(refresh_token == token, user_id == sub,
\*                       revoked_at IS NULL)
FindActiveSession(ss, token) ==
    {s \in ss : /\ s.refresh_token = token
                /\ s.user_id = token.sub
                /\ s.revoked_at = NULL}

\* mutant: a revoked session is reported with an error of its own
refresh_check_Distinguishing(ss, token, t) ==
    LET payload == verify_refresh_token(token, t)
        found == FindActiveSession(ss, token)
    IN  IF ~payload.ok THEN JwtError(payload.why)
        ELSE IF \E s \in ss : s.refresh_token = token /\ s.revoked_at # NULL
             THEN HttpError(401, "REFRESH_TOKEN_REVOKED",
                            "Refresh token has been revoked")
        ELSE IF found = {} THEN InvalidRefreshToken
        ELSE IF (CHOOSE s \in found : TRUE).expires_at < t
             THEN RefreshTokenExpired
        ELSE NoResult

\* refresh_tokens up to "session.revoked_at = datetime.utcnow()": the error
\* raised, or NoResult when the presented session was found active and
\* unexpired and the call goes on
refresh_check(ss, token, t) ==
    LET payload == verify_refresh_token(token, t)
        found == FindActiveSession(ss, token)
    IN  IF ~payload.ok THEN JwtError(payload.why)
        ELSE IF found = {} THEN InvalidRefreshToken
        ELSE IF (CHOOSE s \in found : TRUE).expires_at < t
             THEN RefreshTokenExpired
        ELSE NoResult

RefreshBegin(p, token) ==
    /\ ~InFlight(p)
    /\ IF refresh_check(sessions, token, now) # NoResult
       THEN \* the call raises: nothing was written
            UNCHANGED proc
       ELSE proc' = [proc EXCEPT ![p] =
                [Idle EXCEPT !.pc = "revoked", !.tok = token, !.rvk = now,
                     !.sel = {s.id : s \in FindActiveSession(sessions,
                                                             token)}]]
    /\ UNCHANGED <<todoVars, consoleVars, registerVars,
                   now, users, sessions, nextUid, nextSid, issued, rotCount,
                   loggedOut, logoutSeen>>

\* "Get user" and "Create new tokens": USER_NOT_FOUND leaves the function
\* with the revocation still only in the unit of work, which get_db rolls
\* back; otherwise both tokens and the new Session object are built now
RefreshSelectUser(p) ==
    LET me == proc[p]
        found == {u \in users : u.id = me.tok.sub}
    IN  /\ me.pc = "revoked"
        /\ proc' = [proc EXCEPT ![p] =
               IF found = {} THEN Idle
               ELSE [me EXCEPT !.pc = "commit", !.at = now,
                         !.user = PublicUser(CHOOSE u \in found : TRUE)]]
        /\ UNCHANGED <<todoVars, consoleVars, registerVars,
                       now, users, sessions, nextUid, nextSid, issued,
                       rotCount, loggedOut, logoutSeen>>

\* mutant: the flush checks neither the matched rows nor the foreign key
FlushPossible_Unchecked(ss, us, ids, user_id) == TRUE

\* what the flush of "await db.commit()" needs: each UPDATE by primary key
\* must match its row, and the INSERT needs the user row (foreign key)
FlushPossible(ss, us, ids, user_id) ==
    /\ \A id \in ids : \E s \in ss : s.id = id
    /\ \E u \in us : u.id = user_id

\* mutant: the revocation is committed without the new session
RefreshCommitEffect_NoInsert(ss, ids, rvk, new_session) ==
    {IF s.id \in ids THEN Revoke(s, rvk, "refresh") ELSE s : s \in ss}

\* the committed transaction of refresh_tokens: UPDATE sessions SET
\* revoked_at WHERE id = old, and INSERT of the new session, together
RefreshCommitEffect(ss, ids, rvk, new_session) ==
    {IF s.id \in ids THEN Revoke(s, rvk, "refresh") ELSE s : s \in ss}
        \cup {new_session}

\* "await db.commit()" and the return of the new pair.  The uuid4() values
\* of the new session are drawn here: they are fresh whenever they are drawn.
RefreshCommit(p) ==
    LET me == proc[p]
        old == CHOOSE id \in me.sel : TRUE
        access_token == create_access_token(me.user.id, me.user.email,
                                            me.user.role, me.at)
        new_refresh_token == create_refresh_token(me.user.id, nextSid, me.at)
        new_session == SessionRow(nextSid, me.user.id, new_refresh_token,
                                  me.at + RefreshDelta, old, access_token)
    IN  /\ me.pc = "commit"
        /\ nextSid <= MaxSessions
        /\ IF FlushPossible(sessions, users, me.sel, me.user.id)
           THEN /\ sessions' = RefreshCommitEffect(sessions, me.sel, me.rvk,
                                                   new_session)
                /\ nextSid' = nextSid + 1
                /\ issued' = issued \cup
                       {[tok |-> access_token, at |-> me.at],
                        [tok |-> new_refresh_token, at |-> me.at]}
                /\ rotCount' = [rotCount EXCEPT ![me.tok.token_id] = @ + 1]
           ELSE \* the flush raises, get_db rolls back
                UNCHANGED <<sessions, nextSid, issued, rotCount>>
        /\ proc' = [proc EXCEPT ![p] = Idle]
        /\ UNCHANGED <<todoVars, consoleVars, registerVars,
                       now, users, nextUid, loggedOut, logoutSeen>>

\* ----------------------------------------------------------------- logout
\* mutant: no except clause, what the body raises reaches the caller
logout_result_Propagating(raised) ==
    IF raised = "" THEN LoggedOut ELSE JwtError(raised)

\* "except Exception: pass", then the route returns its MessageResponse:
\* whatever the body raised, logout_user returns normally and the route
\* function returns the success message.  (What get_db's own commit does
\* after the route has returned is not part of this result: it has nothing
\* to write unless the flush inside logout_user failed.)
logout_result(raised) == LoggedOut

\* select(Session).where(user_id == sub, revoked_at IS NULL)
ActiveSessionsOf(ss, user_id) ==
    {s \in ss : s.user_id = user_id /\ s.revoked_at = NULL}

\* mutant: only one of the selected sessions is revoked
LogoutCommitEffect_OnlyOne(ss, ids, rvk) ==
    {IF s.id \in ids /\ \A i \in ids : s.id <= i
     THEN Revoke(s, rvk, "logout") ELSE s : s \in ss}

\* the committed transaction of logout_user: one UPDATE per selected row
LogoutCommitEffect(ss, ids, rvk) ==
    {IF s.id \in ids THEN Revoke(s, rvk, "logout") ELSE s : s \in ss}

LogoutBegin(p, token) ==
    LET payload == verify_refresh_token(token, now)
    IN  /\ ~InFlight(p)
        /\ IF ~payload.ok
           THEN /\ logoutSeen' = logoutSeen \cup {logout_result(payload.why)}
                /\ UNCHANGED proc
           ELSE /\ proc' = [proc EXCEPT ![p] =
                       [Idle EXCEPT !.pc = "lcommit", !.tok = token,
                            !.rvk = now,
                            !.sel = {s.id : s \in
                                      ActiveSessionsOf(sessions, token.sub)}]]
                /\ UNCHANGED logoutSeen
        /\ UNCHANGED <<todoVars, consoleVars, registerVars,
                       now, users, sessions, nextUid, nextSid, issued,
                       rotCount, loggedOut>>

LogoutCommit(p) ==
    LET me == proc[p]
        flushed == \A id \in me.sel : \E s \in sessions : s.id = id
    IN  /\ me.pc = "lcommit"
        /\ sessions' = IF flushed
                       THEN LogoutCommitEffect(sessions, me.sel, me.rvk)
                       ELSE sessions
        /\ loggedOut' = IF flushed THEN loggedOut \cup {me.tok.token_id}
                        ELSE loggedOut
        /\ logoutSeen' = logoutSeen \cup
               {logout_result(IF flushed THEN "" ELSE "StaleDataError")}
        /\ proc' = [proc EXCEPT ![p] = Idle]
        /\ UNCHANGED <<todoVars, consoleVars, registerVars,
                       now, users, nextUid, nextSid, issued, rotCount>>

\* ------------------------------------------------------------ environment
\* The request dies before its commit (connection lost, process killed):
\* get_db rolls the unit of work back and nothing of it reaches the tables.
Crash(p) ==
    /\ InFlight(p)
    /\ proc' = [proc EXCEPT ![p] = Idle]
    /\ UNCHANGED <<todoVars, consoleVars, registerVars,
                   now, users, sessions, nextUid, nextSid, issued, rotCount,
                   loggedOut, logoutSeen>>

\* A user row is deleted in the database; ondelete="CASCADE" deletes the
\* user's sessions and todos with it.
DeleteUser(id) ==
    /\ \E u \in users : u.id = id
    /\ users' = {u \in users : u.id # id}
    /\ sessions' = {s \in sessions : s.user_id # id}
    /\ todos' = {t \in todos : t.user_id # id}
    /\ UNCHANGED <<nextTid, consoleVars, registerVars,
                   now, nextUid, nextSid, issued, proc, rotCount, loggedOut,
                   logoutSeen>>

\* ------------------------------------------------------------ API boundary
\* global_exception_handler: every exception that is not an HTTPException
\* becomes this response
InternalServerError ==
    HttpError(500, "INTERNAL_SERVER_ERROR",
              "An unexpected error occurred. Please try again later.")

\* refresh_tokens as far as it can raise: the checks of refresh_check, then
\* USER_NOT_FOUND when the user of the sub claim is not stored; NoResult when
\* the call reaches its commit
refresh_tokens_raises(ss, us, token, t) ==
    LET r == refresh_check(ss, token, t)
    IN  IF r # NoResult THEN r
        ELSE IF ~\E u \in us : u.id = token.sub THEN UserNotFound
        ELSE NoResult

\* POST /refresh: the route calls refresh_tokens and catches nothing; an
\* HTTPException is answered with its status and detail, anything else by
\* global_exception_handler
refresh_route(ss, us, token, t) ==
    LET r == refresh_tokens_raises(ss, us, token, t)
    IN  IF r.kind \in {"jwt", "db"} THEN InternalServerError ELSE r

\* f"Authentication failed: {str(e)}", str(e) being "Invalid token: " and
\* the message of jwt.decode, or the message of the type check
AuthFailedMessage(why) ==
    CASE why = "malformed" ->
             "Authentication failed: Invalid token: Not enough segments"
      [] why = "signature" ->
             "Authentication failed: Invalid token: Signature verification failed."
      [] why = "expired" ->
             "Authentication failed: Invalid token: Signature has expired."
      [] why = "type" ->
             "Authentication failed: Invalid token type: expected 'access'"

\* the get_current_user dependency of the protected routes, given a bearer
\* token: an HTTPException of the service is re-raised, any other exception
\* becomes 401 AUTH_FAILED with the text of the exception in its message
get_current_user_dependency(us, token, t) ==
    LET r == get_current_user(us, token, t)
    IN  IF r.kind = "jwt"
        THEN HttpError(401, "AUTH_FAILED", AuthFailedMessage(r.code))
        ELSE r

\* an Authorization header as the client sends it: its scheme ("" when the
\* header is absent) and what follows the scheme (NoToken when nothing does)
AuthorizationHeader(scheme, credentials) ==
    [scheme |-> scheme, credentials |-> credentials]

\* the headers that are sent: none, another scheme, "Bearer" alone, and
\* "Bearer" with every token a client can present
AuthorizationHeaders ==
    {AuthorizationHeader("", NoToken),
     AuthorizationHeader("Basic", Malformed),
     AuthorizationHeader("Bearer", NoToken)}
        \cup {AuthorizationHeader("Bearer", t) : t \in Presentable}

\* security = HTTPBearer(auto_error=False): None unless the header is there,
\* its scheme is bearer and credentials follow
HTTPBearer(header) ==
    IF header.scheme # "Bearer" \/ header.credentials = NoToken
    THEN [present |-> FALSE, credentials |-> NoToken]
    ELSE [present |-> TRUE, credentials |-> header.credentials]

MissingAuthHeader ==
    HttpError(401, "MISSING_AUTH_HEADER",
              "Missing authorization header. Format: Authorization: Bearer <token>")

\* what db.execute raises while the user is selected: nothing, or an error
\* of the driver
SelectFailures == {"", "connection is closed"}

\* mutant: the dependency has no "except Exception": what is not an
\* HTTPException reaches global_exception_handler
deps_get_current_user_Propagating(us, header, t, raised) ==
    LET authorization == HTTPBearer(header)
        token == authorization.credentials
        r == get_current_user(us, token, t)
    IN  IF ~authorization.present THEN MissingAuthHeader
        ELSE IF r.kind = "jwt" THEN InternalServerError
        ELSE IF raised # "" THEN InternalServerError
        ELSE r

\* deps.get_current_user, from the header: MISSING_AUTH_HEADER without
\* credentials, then the service call inside try: the token is verified
\* first, then the select runs (raised is what it raises), and every
\* exception that is not an HTTPException becomes 401 AUTH_FAILED
deps_get_current_user(us, header, t, raised) ==
    LET authorization == HTTPBearer(header)
        token == authorization.credentials
    IN  IF ~authorization.present THEN MissingAuthHeader
        ELSE IF verify_access_token(token, t).ok /\ raised # ""
             THEN HttpError(401, "AUTH_FAILED",
                            "Authentication failed: connection is closed")
        ELSE get_current_user_dependency(us, token, t)

\* ------------------------------------------------------------------ todos
\* todo_service.py.  Each call runs its select and its commit in one step:
\* the todo requests follow each other.
\* Python's None in an optional string field (NULL is None in a datetime)
None == "None"

\* class Todo: the columns of table todos
TodoRow(id, user_id, todo_data, t) ==
    [id |-> id, user_id |-> user_id, title |-> todo_data.title,
     description |-> todo_data.description,
     status |-> IF todo_data.status # None THEN todo_data.status
                ELSE "pending",
     priority |-> IF todo_data.priority # None THEN todo_data.priority
                  ELSE "medium",
     due_date |-> todo_data.due_date, category |-> todo_data.category,
     created_at |-> t, updated_at |-> t, deleted_at |-> NULL]

\* a TodoUpdate that provides nothing
NoUpdate ==
    [title |-> None, description |-> None, status |-> None,
     priority |-> None, due_date |-> NULL, category |-> None]

\* the TodoCreate bodies that are sent: the defaults, and every field given
TodoCreates ==
    {[title |-> "a", description |-> None, status |-> "pending",
      priority |-> "medium", due_date |-> NULL, category |-> None],
     [title |-> "b", description |-> "d", status |-> "completed",
      priority |-> "high", due_date |-> 1, category |-> "work"]}

\* a JSON body of PUT /todos/{todo_id}: the fields it holds (given) and
\* their values, null being None or NULL
TodoUpdateBody(given, values) ==
    [given |-> given, title |-> values.title,
     description |-> values.description, status |-> values.status,
     priority |-> values.priority, due_date |-> values.due_date,
     category |-> values.category]

\* the bodies that are sent: one field, several fields, and
\* "due_date": null
TodoUpdateBodies ==
    {TodoUpdateBody({"title"}, [NoUpdate EXCEPT !.title = "c"]),
     TodoUpdateBody({"status"}, [NoUpdate EXCEPT !.status = "completed"]),
     TodoUpdateBody({"description", "priority", "category"},
                    [NoUpdate EXCEPT !.description = "e",
                                     !.priority = "low",
                                     !.category = "home"]),
     TodoUpdateBody({"due_date"}, NoUpdate)}

\* todo_data: TodoUpdate, as pydantic builds it from the body: a field the
\* body does not hold gets its default, None
ParseTodoUpdate(body) ==
    [title |-> IF "title" \in body.given THEN body.title ELSE None,
     description |-> IF "description" \in body.given
                     THEN body.description ELSE None,
     status |-> IF "status" \in body.given THEN body.status ELSE None,
     priority |-> IF "priority" \in body.given THEN body.priority
                  ELSE None,
     due_date |-> IF "due_date" \in body.given THEN body.due_date
                  ELSE NULL,
     category |-> IF "category" \in body.given THEN body.category
                  ELSE None]

\* the TodoUpdate objects the service is called with
TodoUpdates == {ParseTodoUpdate(body) : body \in TodoUpdateBodies}

\* the todo_id path parameter: the text of a UUID, or some other text
TodoIds ==
    {[fmt |-> "uuid", n |-> k] : k \in 1..MaxTodos}
        \cup {[fmt |-> "garbage", n |-> 0]}

\* the dict every todo call returns: the row without deleted_at
TodoDict(todo) ==
    [id |-> todo.id, user_id |-> todo.user_id, title |-> todo.title,
     description |-> todo.description, status |-> todo.status,
     priority |-> todo.priority, due_date |-> todo.due_date,
     category |-> todo.category, created_at |-> todo.created_at,
     updated_at |-> todo.updated_at]

NoTodo ==
    [id |-> 0, user_id |-> 0, title |-> None, description |-> None,
     status |-> None, priority |-> None, due_date |-> NULL,
     category |-> None, created_at |-> NULL, updated_at |-> NULL]

\* raise HTTPException(status_code=status, detail={code, message, details})
TodoError(status, code, message) ==
    [kind |-> "http", status |-> status, code |-> code,
     message |-> message, todo |-> NoTodo]

TodoOk(todo) ==
    [kind |-> "ok", status |-> 200, code |-> "", message |-> "",
     todo |-> TodoDict(todo)]

TodoNotFound == TodoError(404, "TODO_NOT_FOUND", "Todo not found")

InvalidUuid == TodoError(400, "INVALID_UUID", "Invalid todo ID format")

\* mutant: the select forgets "Todo.user_id == user_id"
FindTodo_AnyOwner(ts, user_id, todo_id) ==
    {todo \in ts : todo.id = todo_id.n /\ todo.deleted_at = NULL}

\* mutant: the select forgets "Todo.deleted_at.is_(None)"
FindTodo_WithDeleted(ts, user_id, todo_id) ==
    {todo \in ts : todo.id = todo_id.n /\ todo.user_id = user_id}

\* select(Todo).where(and_(Todo.id == todo_uuid, Todo.user_id == user_id,
\*                         Todo.deleted_at.is_(None)))
FindTodo(ts, user_id, todo_id) ==
    {todo \in ts : /\ todo.id = todo_id.n
                   /\ todo.user_id = user_id
                   /\ todo.deleted_at = NULL}

\* create_todo: the INSERT needs the user row (foreign key); a failed commit
\* is rolled back and answered with DATABASE_ERROR
create_todo(ts, us, user_id, todo_data, id, t) ==
    LET new_todo == TodoRow(id, user_id, todo_data, t)
    IN  IF ~\E u \in us : u.id = user_id
        THEN [res |-> TodoError(500, "DATABASE_ERROR",
                                "Failed to create todo"),
              todos |-> ts]
        ELSE [res |-> [TodoOk(new_todo) EXCEPT !.status = 201],
              todos |-> ts \cup {new_todo}]

\* get_todos: the base query (owner, not deleted), narrowed by the filters
\* that are given; total counts what the narrowed query finds.  The page is
\* page 1 of page_size 20, which holds every row of the model; the search
\* filter narrows the same base query and is left at None.
get_todos(ts, user_id, status, priority, category) ==
    LET found == {todo \in ts :
                      /\ todo.user_id = user_id
                      /\ todo.deleted_at = NULL
                      /\ status # None => todo.status = status
                      /\ priority # None => todo.priority = priority
                      /\ category # None => todo.category = category}
    IN  [todos |-> {TodoDict(todo) : todo \in found},
         total |-> Cardinality(found)]

get_todo_by_id(ts, user_id, todo_id) ==
    LET found == FindTodo(ts, user_id, todo_id)
    IN  IF todo_id.fmt # "uuid" THEN InvalidUuid
        ELSE IF found = {} THEN TodoNotFound
        ELSE TodoOk(CHOOSE todo \in found : TRUE)

\* "Update fields if provided", then updated_at
ApplyUpdate(todo, todo_data, t) ==
    [todo EXCEPT
        !.title = IF todo_data.title # None THEN todo_data.title ELSE @,
        !.description = IF todo_data.description # None
                        THEN todo_data.description ELSE @,
        !.status = IF todo_data.status # None THEN todo_data.status ELSE @,
        !.priority = IF todo_data.priority # None
                     THEN todo_data.priority ELSE @,
        !.due_date = IF todo_data.due_date # NULL
                     THEN todo_data.due_date ELSE @,
        !.category = IF todo_data.category # None
                     THEN todo_data.category ELSE @,
        !.updated_at = t]

\* what a call that writes answers and leaves in the table
Written(ts, old, new) ==
    [res |-> TodoOk(new), todos |-> (ts \ {old}) \cup {new}]

Refused(ts, res) == [res |-> res, todos |-> ts]

update_todo(ts, user_id, todo_id, todo_data, t) ==
    LET found == FindTodo(ts, user_id, todo_id)
        todo == CHOOSE x \in found : TRUE
    IN  IF todo_id.fmt # "uuid" THEN Refused(ts, InvalidUuid)
        ELSE IF found = {} THEN Refused(ts, TodoNotFound)
        ELSE Written(ts, todo, ApplyUpdate(todo, todo_data, t))

\* "todo.deleted_at = datetime.utcnow()": the row stays; the UPDATE also
\* fires onupdate of updated_at
delete_todo(ts, user_id, todo_id, t) ==
    LET found == FindTodo(ts, user_id, todo_id)
        todo == CHOOSE x \in found : TRUE
    IN  IF todo_id.fmt # "uuid" THEN Refused(ts, InvalidUuid)
        ELSE IF found = {} THEN Refused(ts, TodoNotFound)
        ELSE Written(ts, todo,
                     [todo EXCEPT !.deleted_at = t, !.updated_at = t])

mark_completed(ts, user_id, todo_id, t) ==
    LET found == FindTodo(ts, user_id, todo_id)
        todo == CHOOSE x \in found : TRUE
    IN  IF todo_id.fmt # "uuid" THEN Refused(ts, InvalidUuid)
        ELSE IF found = {} THEN Refused(ts, TodoNotFound)
        ELSE Written(ts, todo,
                     [todo EXCEPT !.status = "completed", !.updated_at = t])

\* current_user: User = Depends(get_current_user): the caller's user row
\* was found when the request came in
Authenticated(user_id) == \E u \in users : u.id = user_id

TodoFrame ==
    UNCHANGED <<now, users, sessions, nextUid, nextSid, issued, proc,
                rotCount, loggedOut, logoutSeen, consoleVars, registerVars>>

\* POST /todos
CreateTodo(user_id, todo_data) ==
    /\ Authenticated(user_id)
    /\ nextTid <= MaxTodos
    /\ todos' = create_todo(todos, users, user_id, todo_data, nextTid,
                            now).todos
    /\ nextTid' = nextTid + 1
    /\ TodoFrame

\* GET /todos: reads only
GetTodos(user_id, status, priority, category) ==
    /\ Authenticated(user_id)
    /\ get_todos(todos, user_id, status, priority, category).total >= 0
    /\ UNCHANGED vars

\* GET /todos/{todo_id}: reads only
GetTodoById(user_id, todo_id) ==
    /\ Authenticated(user_id)
    /\ get_todo_by_id(todos, user_id, todo_id).kind \in {"ok", "http"}
    /\ UNCHANGED vars

\* PUT /todos/{todo_id}
UpdateTodo(user_id, todo_id, todo_data) ==
    /\ Authenticated(user_id)
    /\ todos' = update_todo(todos, user_id, todo_id, todo_data, now).todos
    /\ UNCHANGED nextTid
    /\ TodoFrame

\* DELETE /todos/{todo_id}
DeleteTodo(user_id, todo_id) ==
    /\ Authenticated(user_id)
    /\ todos' = delete_todo(todos, user_id, todo_id, now).todos
    /\ UNCHANGED nextTid
    /\ TodoFrame

\* PATCH /todos/{todo_id}/complete
MarkCompleted(user_id, todo_id) ==
    /\ Authenticated(user_id)
    /\ todos' = mark_completed(todos, user_id, todo_id, now).todos
    /\ UNCHANGED nextTid
    /\ TodoFrame

\* ------------------------------------------------------------ console app
\* src/main.py and its TaskService over an in-memory StorageService: one
\* process, one call of the service at a time.  A string is the sequence
\* of its characters.
Chars == {" ", "a", "b"}

Strings(n) == UNION {[1..k -> Chars] : k \in 0..n}

\* the titles and descriptions that are typed
Titles == Strings(MaxTitleLen)
Descriptions == Strings(1)

\* None as the new_title or new_description of update_task
NoneText == <<"None">>

RECURSIVE lstrip(_)
lstrip(s) ==
    IF s = <<>> THEN s
    ELSE IF Head(s) = " " THEN lstrip(Tail(s))
    ELSE s

RECURSIVE rstrip(_)
rstrip(s) ==
    IF s = <<>> THEN s
    ELSE IF s[Len(s)] = " " THEN rstrip(SubSeq(s, 1, Len(s) - 1))
    ELSE s

\* str.strip()
strip(s) == rstrip(lstrip(s))

\* a message of the service; an f-string keeps its task_id apart
Message(text, task_id) == [text |-> text, task_id |-> task_id]

\* class Task
Task(id, title, description, completed) ==
    [id |-> id, title |-> title, description |-> description,
     completed |-> completed]

\* None where a Task is returned
NoTask == Task(0, <<>>, <<>>, FALSE)

\* skills/validators.py
validate_title(title) ==
    IF title = <<>> \/ strip(title) = <<>>
    THEN [is_valid |-> FALSE,
          error_msg |-> Message("Task title cannot be empty", 0)]
    ELSE [is_valid |-> TRUE, error_msg |-> Message("", 0)]

\* validate_id for a task_id that is an int
validate_id(task_id, existing_ids) ==
    IF task_id \notin existing_ids
    THEN [is_valid |-> FALSE,
          error_msg |-> Message("Task with ID {task_id} not found",
                                task_id)]
    ELSE [is_valid |-> TRUE, error_msg |-> Message("", 0)]

\* skills/id_generator.py
generate_next_id(current_max_id) == current_max_id + 1

\* StorageService: _tasks is a dict keyed by the task id
store_task(ts, task) == {x \in ts : x.id # task.id} \cup {task}

get_task(ts, task_id) == CHOOSE x \in ts : x.id = task_id

get_existing_ids(ts) == {x.id : x \in ts}

storage_update_task(ts, task_id, task) ==
    IF task_id \in get_existing_ids(ts)
    THEN {x \in ts : x.id # task_id} \cup {task}
    ELSE ts

storage_delete_task(ts, task_id) == {x \in ts : x.id # task_id}

\* what a TaskService call returns, and the storage it leaves
TaskResult(success, message, task, ts) ==
    [success |-> success, message |-> message, task |-> task, tasks |-> ts]

\* create_task: the new id is computed from storage._next_id, which the
\* call reads and does not advance (get_next_id is not called)
create_task(ts, nid, title, description) ==
    LET v == validate_title(title)
        current_max == nid - 1
        new_id == generate_next_id(current_max)
        task == Task(new_id, strip(title), strip(description), FALSE)
    IN  IF ~v.is_valid THEN TaskResult(FALSE, v.error_msg, NoTask, ts)
        ELSE TaskResult(TRUE, Message("Task created successfully", 0),
                        task, store_task(ts, task))

get_all_tasks(ts) ==
    IF ts = {}
    THEN [success |-> TRUE, message |-> Message("No tasks found", 0),
          tasks |-> ts]
    ELSE [success |-> TRUE,
          message |-> Message("Retrieved {len(tasks)} tasks",
                              Cardinality(ts)),
          tasks |-> ts]

service_get_task(ts, task_id) ==
    LET v == validate_id(task_id, get_existing_ids(ts))
    IN  IF ~v.is_valid THEN TaskResult(FALSE, v.error_msg, NoTask, ts)
        ELSE TaskResult(TRUE, Message("Task retrieved", 0),
                        get_task(ts, task_id), ts)

update_task(ts, task_id, new_title, new_description) ==
    LET v == validate_id(task_id, get_existing_ids(ts))
        task == get_task(ts, task_id)
        vt == validate_title(new_title)
        titled == IF new_title # NoneText
                  THEN [task EXCEPT !.title = strip(new_title)] ELSE task
        updated == IF new_description # NoneText
                   THEN [titled EXCEPT
                            !.description = strip(new_description)]
                   ELSE titled
    IN  IF ~v.is_valid THEN TaskResult(FALSE, v.error_msg, NoTask, ts)
        ELSE IF new_title # NoneText /\ ~vt.is_valid
             THEN TaskResult(FALSE, vt.error_msg, NoTask, ts)
        ELSE TaskResult(TRUE, Message("Task updated successfully", 0),
                        updated, storage_update_task(ts, task_id, updated))

AlreadyComplete == Message("Task is already marked as complete", 0)

mark_complete(ts, task_id) ==
    LET v == validate_id(task_id, get_existing_ids(ts))
        task == get_task(ts, task_id)
        marked == [task EXCEPT !.completed = TRUE]
    IN  IF ~v.is_valid THEN TaskResult(FALSE, v.error_msg, NoTask, ts)
        ELSE IF task.completed
             THEN TaskResult(TRUE, AlreadyComplete, task, ts)
        ELSE TaskResult(TRUE, Message("Task marked complete", 0), marked,
                        storage_update_task(ts, task_id, marked))

delete_task(ts, task_id) ==
    LET v == validate_id(task_id, get_existing_ids(ts))
    IN  IF ~v.is_valid THEN TaskResult(FALSE, v.error_msg, NoTask, ts)
        ELSE TaskResult(TRUE,
                        Message("Task ID {task_id} deleted successfully",
                                task_id),
                        NoTask, storage_delete_task(ts, task_id))

\* handle_mark_complete, given an id that int() accepts: which display
\* function gets the message ("already" in message.lower() -> display_info)
handle_mark_complete(ts, task_id) ==
    LET r == mark_complete(ts, task_id)
    IN  [display |-> IF ~r.success THEN "display_error"
                     ELSE IF r.message = AlreadyComplete
                          THEN "display_info"
                     ELSE "display_success",
         message |-> r.message, tasks |-> r.tasks]

ConsoleFrame ==
    UNCHANGED <<now, users, sessions, nextUid, nextSid, issued, proc,
                rotCount, loggedOut, logoutSeen, todoVars, registerVars>>

\* TaskService.create_task (menu choice 1)
CreateTask(title, description) ==
    LET r == create_task(tasks, next_id, title, description)
    IN  /\ Len(createdIds) < MaxCreates
        /\ tasks' = r.tasks
        /\ createdIds' = IF r.success THEN Append(createdIds, r.task.id)
                         ELSE createdIds
        /\ UNCHANGED next_id
        /\ ConsoleFrame

\* TaskService.get_all_tasks (menu choice 2): reads only
ViewTasks ==
    /\ get_all_tasks(tasks).success
    /\ UNCHANGED vars

\* TaskService.update_task (menu choice 3)
UpdateTask(task_id, new_title, new_description) ==
    /\ tasks' = update_task(tasks, task_id, new_title, new_description).tasks
    /\ UNCHANGED <<next_id, createdIds>>
    /\ ConsoleFrame

\* TaskService.delete_task (menu choice 4)
DeleteTask(task_id) ==
    /\ tasks' = delete_task(tasks, task_id).tasks
    /\ UNCHANGED <<next_id, createdIds>>
    /\ ConsoleFrame

\* handle_mark_complete and TaskService.mark_complete (menu choice 5)
MarkComplete(task_id) ==
    /\ tasks' = handle_mark_complete(tasks, task_id).tasks
    /\ UNCHANGED <<next_id, createdIds>>
    /\ ConsoleFrame

\* --------------------------------------------------------- specifications
\* Concurrent requests at one instant: every interleaving of the steps of
\* the requests of Procs with each other, with the other calls and with the
\* environment, the clock standing still.
NextConcurrent ==
    \/ \E e \in Registrants, pw \in RegisterPasswords, salt \in Salts :
           Register(e, pw, salt)
    \/ \E e \in Emails, pw \in Passwords : Login(e, pw)
    \/ \E t \in Presentable : Me(t)
    \/ \E p \in Procs, t \in Presentable : RefreshBegin(p, t)
    \/ \E p \in Procs : RefreshSelectUser(p)
    \/ \E p \in Procs : RefreshCommit(p)
    \/ \E p \in Procs, t \in Presentable : LogoutBegin(p, t)
    \/ \E p \in Procs : LogoutCommit(p)
    \/ \E p \in Procs : Crash(p)
    \/ \E id \in 1..MaxUsers : DeleteUser(id)

SpecConcurrent == Init /\ [][NextConcurrent]_vars

\* One request at a time while the clock runs: refresh and logout requests
\* follow each other (a single request slot), tokens age and expire.
NextTimed ==
    \/ Tick
    \/ \E e \in Registrants, pw \in RegisterPasswords, salt \in Salts :
           Register(e, pw, salt)
    \/ \E e \in Emails, pw \in Passwords : Login(e, pw)
    \/ \E t \in Presentable : Me(t)
    \/ \E t \in Presentable : RefreshBegin(1, t)
    \/ RefreshSelectUser(1)
    \/ RefreshCommit(1)
    \/ \E t \in Presentable : LogoutBegin(1, t)
    \/ LogoutCommit(1)
    \/ Crash(1)
    \/ \E id \in 1..MaxUsers : DeleteUser(id)

SpecTimed == Init /\ [][NextTimed]_vars

\* Overlapping requests while the clock runs: after one login, the refresh
\* and logout requests of Procs interleave with each other and with the
\* clock, so that the instants at which they read, assign revoked_at and
\* commit differ.
NextOverlap ==
    \/ now < MaxOverlapClock /\ Tick
    \/ \E e \in Registrants, pw \in RegisterPasswords, salt \in Salts :
           Register(e, pw, salt)
    \/ \E e \in Emails, pw \in Passwords : sessions = {} /\ Login(e, pw)
    \/ \E p \in Procs, t \in Presentable : RefreshBegin(p, t)
    \/ \E p \in Procs : RefreshSelectUser(p)
    \/ \E p \in Procs : RefreshCommit(p)
    \/ \E p \in Procs, t \in Presentable : LogoutBegin(p, t)
    \/ \E p \in Procs : LogoutCommit(p)

SpecOverlap == Init /\ [][NextOverlap]_vars

\* Accounts: every address registers, with every password, and logs in
\* while the clock runs; requests follow each other.
NextAccounts ==
    \/ Tick
    \/ \E e \in Emails, pw \in Passwords, salt \in Salts :
           Register(e, pw, salt)
    \/ \E e \in Emails, pw \in Passwords : Login(e, pw)
    \/ \E id \in 1..MaxUsers : DeleteUser(id)

SpecAccounts == Init /\ [][NextAccounts]_vars

\* Todos: two accounts, their todo requests following each other while the
\* clock runs, and accounts being deleted.
NextTodos ==
    \/ now < MaxTodoClock /\ Tick
    \/ \E e \in Emails, pw \in RegisterPasswords, salt \in Salts :
           Register(e, pw, salt)
    \/ \E id \in 1..MaxUsers : DeleteUser(id)
    \/ \E u \in 1..MaxUsers, d \in TodoCreates : CreateTodo(u, d)
    \/ \E u \in 1..MaxUsers, st \in {None, "completed"} :
           GetTodos(u, st, None, None)
    \/ \E u \in 1..MaxUsers, id \in TodoIds : GetTodoById(u, id)
    \/ \E u \in 1..MaxUsers, id \in TodoIds, d \in TodoUpdates :
           UpdateTodo(u, id, d)
    \/ \E u \in 1..MaxUsers, id \in TodoIds : DeleteTodo(u, id)
    \/ \E u \in 1..MaxUsers, id \in TodoIds : MarkCompleted(u, id)

SpecTodos == Init /\ [][NextTodos]_vars

\* The console application: one session of menu choices.
NextConsole ==
    \/ \E title \in Titles, d \in Descriptions : CreateTask(title, d)
    \/ ViewTasks
    \/ \E id \in 0..MaxTaskId, title \in Titles \cup {NoneText},
          d \in Descriptions \cup {NoneText} : UpdateTask(id, title, d)
    \/ \E id \in 0..MaxTaskId : DeleteTask(id)
    \/ \E id \in 0..MaxTaskId : MarkComplete(id)

SpecConsole == Init /\ [][NextConsole]_vars

\* Registration: the register requests of Procs interleave, for every
\* address, and accounts are deleted.
NextRegister ==
    \/ \E p \in Procs, e \in Emails, pw \in RegisterPasswords, salt \in Salts :
           RegisterBegin(p, e, pw, salt)
    \/ \E p \in Procs : RegisterCommit(p)
    \/ \E id \in 1..MaxUsers : DeleteUser(id)

SpecRegister == Init /\ [][NextRegister]_vars

\* Owners: several accounts log in and refresh side by side, one refresh
\* at a time, and accounts are deleted.
NextOwners ==
    \/ \E e \in Emails, pw \in RegisterPasswords, salt \in Salts :
           Register(e, pw, salt)
    \/ \E e \in Emails, pw \in RegisterPasswords : Login(e, pw)
    \/ \E t \in Presentable : RefreshBegin(1, t)
    \/ RefreshSelectUser(1)
    \/ RefreshCommit(1)
    \/ \E id \in 1..MaxUsers : DeleteUser(id)

SpecOwners == Init /\ [][NextOwners]_vars

\* Everything at once.
Next ==
    \/ NextConcurrent \/ NextTimed \/ NextOverlap \/ NextAccounts
    \/ NextTodos \/ NextConsole \/ NextRegister \/ NextOwners

Spec == Init /\ [][Next]_vars

\* ================================================================= claims
\* A call that only reads (get_current_user, a refresh_tokens or a login
\* that raises) leaves the state as it is; its response is the value of the
\* operator that models it, in the state in which it is called.  The claims
\* about responses are stated for every token a client can present, in
\* every reachable state.

RefreshTokensIssued == {t \in IssuedTokens : t.type = "refresh"}
AccessTokensIssued == {t \in IssuedTokens : t.type = "access"}

\* a refresh of this token has committed before
Rotated(token) == rotCount[token.token_id] > 0

C2_ConcurrentRefreshAtMostOne ==
    \A k \in DOMAIN rotCount : rotCount[k] <= 1

\* C3: rotation is atomic.  In every committed state a session whose
\* revoked_at was written by refresh_tokens has the replacement session that
\* call created, and every session created by a refresh has the session it
\* replaces, revoked.
C3_RotationAtomic ==
    /\ \A s \in sessions :
           s.revoked_by = "refresh" =>
               /\ s.revoked_at # NULL
               /\ \E n \in sessions : n.rotated_from = s.id
    /\ \A n \in sessions :
           n.rotated_from # 0 =>
               \E s \in sessions : s.id = n.rotated_from /\ s.revoked_at # NULL

\* a rotation has committed while another request of the same user, which
\* had loaded the same session, has been rolled back
C3_Witness ==
    /\ \E s, n \in sessions :
           /\ s.revoked_by = "refresh"
           /\ n.rotated_from = s.id
           /\ n.revoked_at = NULL
    /\ \E p \in Procs : proc[p].pc = "revoked"

\* C4: login returns exactly the same error (401, INVALID_CREDENTIALS, the
\* same message) for an unknown email as for a known email with a wrong
\* password.
C4_LoginFailuresIndistinguishable ==
    \A e1, e2 \in Emails, pw1, pw2 \in Passwords :
        LET a1 == authenticate_user(users, e1, pw1)
            a2 == authenticate_user(users, e2, pw2)
        IN  (~a1.ok /\ ~a2.ok) =>
                /\ a1.res = a2.res
                /\ a1.res.status = 401
                /\ a1.res.code = "INVALID_CREDENTIALS"

\* one email is registered and refused for its password, another is unknown
C4_Witness ==
    \E e1, e2 \in Emails, pw \in Passwords :
        /\ \E u \in users : u.email = e1
        /\ ~\E u \in users : u.email = e2
        /\ ~authenticate_user(users, e1, pw).ok
        /\ ~authenticate_user(users, e2, pw).ok

C6_RotationScenario ==
    /\ \A k \in DOMAIN rotCount : rotCount[k] <= 1
    /\ \A t \in RefreshTokensIssued :
           (Rotated(t) \/ t.token_id \in loggedOut) =>
               Failed(refresh_check(sessions, t, now))
    /\ \A s \in sessions :
           (/\ s.rotated_from # 0
            /\ s.revoked_at = NULL
            /\ s.expires_at >= now
            /\ s.refresh_token.exp >= Sec(now)) =>
               refresh_check(sessions, s.refresh_token, now) = NoResult

\* login gave refresh (s1), refresh(refresh) gave refresh2 (s2), refresh2
\* was accepted once (s3), logout(refresh2) was committed, and now both
\* refresh and refresh2 are rejected
C6_Witness ==
    \E s1, s2, s3 \in sessions :
        /\ s1.rotated_from = 0
        /\ s2.rotated_from = s1.id
        /\ s3.rotated_from = s2.id
        /\ rotCount[s1.id] = 1
        /\ rotCount[s2.id] = 1
        /\ s2.id \in loggedOut
        /\ s3.revoked_by = "logout"
        /\ refresh_check(sessions, s1.refresh_token, now)
               = InvalidRefreshToken
        /\ refresh_check(sessions, s2.refresh_token, now)
               = InvalidRefreshToken

\* C7: token kinds are never confused: a token of type refresh is rejected
\* by verify_access_token and get_current_user, a token of type access by
\* verify_refresh_token and refresh_tokens.
C7_TokenKindsNotConfused ==
    \A t \in Presentable :
        /\ t.type = "refresh" =>
               /\ ~verify_access_token(t, now).ok
               /\ get_current_user(users, t, now).kind = "jwt"
        /\ t.type = "access" =>
               /\ ~verify_refresh_token(t, now).ok
               /\ refresh_check(sessions, t, now).kind = "jwt"

\* a well-signed, unexpired token of each kind, of a user that exists, is
\* refused for its type alone
C7_Witness ==
    \E r \in RefreshTokensIssued, a \in AccessTokensIssued :
        /\ decode_token(r, now).ok
        /\ decode_token(a, now).ok
        /\ \E u \in users : u.id = r.sub
        /\ get_current_user(users, r, now) = JwtError("type")
        /\ refresh_check(sessions, a, now) = JwtError("type")

\* C8: a token signed with another secret is rejected by decode_token,
\* verify_access_token and verify_refresh_token, whatever its claims.
C8_ForeignSecretRejected ==
    \A t \in Presentable :
        (t.fmt = "jwt" /\ t.key # jwt_secret_key) =>
            /\ ~decode_token(t, now).ok
            /\ ~verify_access_token(t, now).ok
            /\ ~verify_refresh_token(t, now).ok

\* the claims of a token that is accepted now, signed with another secret
C8_Witness ==
    \E t \in IssuedTokens :
        /\ decode_token(t, now).ok
        /\ decode_token([t EXCEPT !.key = OtherSecret], now)
               = Decoded("signature")

C10_UnknownSubjectRejected ==
    \A t \in Presentable :
        (/\ verify_access_token(t, now).ok
         /\ ~\E u \in users : u.id = t.sub) =>
            /\ get_current_user(users, t, now).kind = "http"
            /\ get_current_user(users, t, now).status = 401
            /\ get_current_user(users, t, now).code = "USER_NOT_FOUND"
            /\ get_current_user(users, t, now).user = NoUser

\* the user of a valid access token was deleted, and the email registered
\* again under a new id
C10_Witness ==
    \E t \in AccessTokensIssued :
        /\ verify_access_token(t, now).ok
        /\ ~\E u \in users : u.id = t.sub
        /\ \E u \in users : u.email = t.email
        /\ get_current_user(users, t, now) = UserNotFound

\* C11: every successful refresh returns an access token and a refresh token
\* that both differ from the access token and the refresh token of the pair
\* it replaces, also within one clock second.
C11_RefreshedPairDiffers ==
    \A s, n \in sessions :
        n.rotated_from = s.id =>
            /\ n.refresh_token # s.refresh_token
            /\ n.access_token # s.access_token

\* C12: session records are append-only except for revocation: no login,
\* refresh or logout step deletes a session or changes its user_id,
\* refresh_token or expires_at, and a revoked_at that is set is never
\* cleared or overwritten, under every interleaving.
C12_SessionsAppendOnly ==
    [][\A s \in sessions :
           \E s2 \in sessions' :
               /\ s2.id = s.id
               /\ s2.user_id = s.user_id
               /\ s2.refresh_token = s.refresh_token
               /\ s2.expires_at = s.expires_at
               /\ s.revoked_at # NULL => s2.revoked_at = s.revoked_at]_vars

\* C13: register_user with an email of a stored user fails with
\* EMAIL_ALREADY_EXISTS and leaves the user table unchanged; otherwise it
\* stores exactly one new user with that email, is_verified = False and
\* role = user, and leaves all other users and all sessions unchanged.
C13_RegisterEffect ==
    /\ [](\A e \in Emails, pw \in Passwords, salt \in Salts :
            LET r == register_user(users, e, pw, salt, nextUid)
            IN  IF \E u \in users : u.email = e
                THEN /\ r.res = EmailAlreadyExists
                     /\ r.res.status = 400
                     /\ r.users = users
                ELSE /\ r.res.kind = "ok"
                     /\ users \subseteq r.users
                     /\ \E u \in r.users :
                            /\ r.users \ users = {u}
                            /\ u.email = e
                            /\ u.is_verified = FALSE
                            /\ u.role = "user")
    /\ [][nextUid' # nextUid =>
             /\ sessions' = sessions
             /\ \E e \in Emails, pw \in Passwords, salt \in Salts :
                    /\ ~\E u \in users : u.email = e
                    /\ users' = register_user(users, e, pw, salt,
                                              nextUid).users]_vars

\* a second account was registered while the first one has a session, and
\* registering the first address again is refused
C13_Witness ==
    \E u1, u2 \in users, s \in sessions :
        /\ u1.id < u2.id
        /\ s.user_id = u1.id
        /\ register_user(users, u1.email, "password123", "salt", nextUid).res
               = EmailAlreadyExists

\* C14: for every (email, password) accepted by register_user, a following
\* login_user with the same email and password succeeds, the returned
\* user's email is the registered email, and the returned user object has
\* no password_hash field.
C14_RegisterThenLogin ==
    /\ [](\A u \in users, pw \in Passwords, salt \in Salts :
            u.password_hash = get_password_hash(pw, salt) =>
                LET r == login_user(users, u.email, pw, nextSid, now).res
                IN  /\ r.kind = "ok"
                    /\ r.user.email = u.email
                    /\ r.user.id = u.id
                    /\ "password_hash" \notin DOMAIN r.user)
    /\ [][\A e \in Emails, pw \in Passwords, salt \in Salts :
             LET reg == register_user(users, e, pw, salt, nextUid)
             IN  (nextUid' # nextUid /\ reg.res.kind = "ok"
                                     /\ users' = reg.users) =>
                     LET r == login_user(users', e, pw, nextSid', now').res
                     IN  /\ r.kind = "ok"
                         /\ r.user.email = e
                         /\ "password_hash" \notin DOMAIN r.user]_vars

\* an account registered with the second password has logged in, and a
\* login with its email and password would succeed again
C14_Witness ==
    \E u \in users, s \in sessions :
        /\ u.password_hash = get_password_hash("wrongpass", "salt")
        /\ u.email = "b@x.com"
        /\ s.user_id = u.id
        /\ s.refresh_token.iat < Sec(now)
        /\ login_user(users, u.email, "wrongpass", nextSid, now).res.kind
               = "ok"

C16_LoginInvalidatesOldTokens ==
    \A s1, s2 \in sessions :
        (/\ s1.user_id = s2.user_id
         /\ s2.rotated_from = 0
         /\ s1.id < s2.id) =>
            Failed(refresh_check(sessions, s1.refresh_token, now))

\* C17: refresh_tokens with a refresh token whose matching un-revoked
\* session has expires_at in the past fails with REFRESH_TOKEN_EXPIRED.
C17_ExpiredSessionReported ==
    \A s \in sessions :
        (s.revoked_at = NULL /\ s.expires_at < now) =>
            refresh_check(sessions, s.refresh_token, now)
                = RefreshTokenExpired

\* C18: every failure of the refresh operation caused by the presented
\* token (malformed, bad signature, expired, of type access) is surfaced as
\* a 401 authentication failure, never as an internal error.
C18_TokenFailuresAre401 ==
    \A t \in Presentable :
        ~verify_refresh_token(t, now).ok =>
            /\ refresh_route(sessions, users, t, now).status = 401
            /\ refresh_route(sessions, users, t, now) # InternalServerError

\* C19: for token failures the client-visible response does not depend on
\* the cause: all failing responses of refresh are identical, and all
\* failing responses of the get_current_user dependency are identical.
C19_FailuresIndistinguishable ==
    \A t1, t2 \in Presentable :
        /\ (/\ Failed(refresh_route(sessions, users, t1, now))
            /\ Failed(refresh_route(sessions, users, t2, now))) =>
               refresh_route(sessions, users, t1, now)
                   = refresh_route(sessions, users, t2, now)
        /\ (/\ Failed(get_current_user_dependency(users, t1, now))
            /\ Failed(get_current_user_dependency(users, t2, now))) =>
               get_current_user_dependency(users, t1, now)
                   = get_current_user_dependency(users, t2, now)

\* C20: refresh_tokens reports the same error (INVALID_REFRESH_TOKEN, the
\* same message) for a well-signed refresh token that has no session record
\* as for one whose session is already revoked.
C20_MissingAndRevokedAlike ==
    \A t \in Presentable :
        (/\ verify_refresh_token(t, now).ok
         /\ \/ ~\E s \in sessions : s.refresh_token = t
            \/ \E s \in sessions : s.refresh_token = t /\ s.revoked_at # NULL)
        => /\ refresh_check(sessions, t, now) = InvalidRefreshToken
           /\ refresh_check(sessions, t, now).status = 401
           /\ refresh_check(sessions, t, now).code = "INVALID_REFRESH_TOKEN"

\* one verifiable refresh token has no session record (its user was
\* deleted), another has a revoked one, and both get the same answer
C20_Witness ==
    \E t1, t2 \in RefreshTokensIssued :
        /\ verify_refresh_token(t1, now).ok
        /\ verify_refresh_token(t2, now).ok
        /\ ~\E s \in sessions : s.refresh_token = t1
        /\ \E s \in sessions : s.refresh_token = t2 /\ s.revoked_at # NULL
        /\ refresh_check(sessions, t1, now) = refresh_check(sessions, t2, now)

C22_AccessTokensNotRevocable ==
    /\ [](\A t \in AccessTokensIssued :
              (/\ verify_access_token(t, now).ok
               /\ \E u \in users : u.id = t.sub) =>
                  /\ get_current_user(users, t, now).kind = "ok"
                  /\ get_current_user(users, t, now).user.id = t.sub)
    /\ [][(now' = now /\ users' = users) =>
              \A t \in Presentable :
                  get_current_user(users', t, now')
                      = get_current_user(users, t, now)]_vars

\* the session of one access token was rotated away, the session of another
\* was revoked by a logout, the user has no active session left, and both
\* access tokens are still accepted
C22_Witness ==
    \E s1, s2 \in sessions :
        /\ s1.revoked_by = "refresh"
        /\ s2.revoked_by = "logout"
        /\ s2.rotated_from = s1.id
        /\ ActiveSessionsOf(sessions, s1.user_id) = {}
        /\ get_current_user(users, s1.access_token, now).kind = "ok"
        /\ get_current_user(users, s2.access_token, now).kind = "ok"
        /\ get_current_user(users, s2.access_token, now).user.id = s2.user_id

\* C27: a refresh_tokens call that fails leaves the committed sessions as
\* they are, whatever made it fail: a step that starts no request, logs
\* nobody in and changes no user (among them every refresh_tokens that
\* raises at its token or session checks) changes no session; neither does
\* the end of a call that had assigned revoked_at and then found no user
\* (USER_NOT_FOUND), nor the end of a call whose commit could not be
\* flushed because the user row was gone.
C27_FailedRefreshChangesNothing ==
    [][/\ (proc' = proc /\ nextSid' = nextSid /\ users' = users) =>
              sessions' = sessions
       /\ \A p \in Procs :
              LET me == proc[p]
              IN  /\ (me.pc = "revoked" /\ proc'[p].pc = "idle") =>
                         sessions' = sessions
                  /\ (/\ me.pc = "commit"
                      /\ proc'[p].pc = "idle"
                      /\ ~\E u \in users : u.id = me.user.id) =>
                         sessions' = sessions]_vars

\* a refresh_tokens call has assigned revoked_at to the session it found
\* and its user is no longer stored: it raises USER_NOT_FOUND next, and no
\* committed session carries a revocation or was created by a refresh
C27_Witness ==
    \E p \in Procs :
        /\ proc[p].pc = "revoked"
        /\ proc[p].rvk # NULL
        /\ proc[p].sel # {}
        /\ refresh_tokens_raises(sessions, users, proc[p].tok, now) # NoResult
        /\ ~\E u \in users : u.id = proc[p].tok.sub
        /\ \A s \in sessions : s.revoked_at = NULL /\ s.rotated_from = 0

\* C28: a logout is not undone by a refresh in flight: a refresh_tokens call
\* does not commit a new session when the session it presented has been
\* revoked by a logout in the meantime, and when a logout_user commits, its
\* user has no active session that a refresh made out of one of the
\* sessions the logout had read as active.
C28_LogoutNotUndoneByRefresh ==
    [][\A p \in Procs :
           LET me == proc[p]
           IN  /\ (/\ me.pc = "commit"
                   /\ proc'[p].pc = "idle"
                   /\ nextSid' # nextSid) =>
                      \A s \in sessions :
                          s.id \in me.sel => s.revoked_by # "logout"
               /\ (/\ me.pc = "lcommit"
                   /\ proc'[p].pc = "idle"
                   /\ me.tok.token_id \in loggedOut') =>
                      \A s \in sessions' :
                          (s.user_id = me.tok.sub /\ s.revoked_at = NULL) =>
                              s.rotated_from \notin me.sel]_vars

\* C29: logout_user changes the session store only when the presented
\* refresh token is itself backed by an active session: a logout whose
\* commit changes a session was called with a token whose own session is
\* active, so a token already rotated or revoked revokes no other session.
C29_LogoutNeedsActiveSession ==
    [][\A p \in Procs :
           LET me == proc[p]
           IN  (/\ me.pc = "lcommit"
                /\ proc'[p].pc = "idle"
                /\ sessions' # sessions) =>
                   \E s \in sessions : /\ s.refresh_token = me.tok
                                       /\ s.revoked_at = NULL]_vars

\* C30: each successful refresh_tokens call leaves the number of active
\* sessions of the token's user as it was (one session revoked, one
\* created) and leaves the sessions of every other user untouched.
C30_RefreshKeepsActiveCount ==
    [][\A p \in Procs :
           LET me == proc[p]
               u == me.tok.sub
           IN  (/\ me.pc = "commit"
                /\ proc'[p].pc = "idle"
                /\ nextSid' # nextSid) =>
                   /\ Cardinality(ActiveSessionsOf(sessions', u))
                          = Cardinality(ActiveSessionsOf(sessions, u))
                   /\ {s \in sessions' : s.user_id # u}
                          = {s \in sessions : s.user_id # u}]_vars

\* what the todo calls are asked with
TodoStatusFilters == {None, "pending", "completed"}

\* C23: todo operations are isolated per user: called with user_id u,
\* get_todo_by_id, update_todo, delete_todo and mark_completed answer
\* TODO_NOT_FOUND for a todo owned by another user and leave the table as it
\* is, get_todos lists and counts only todos of u, and whatever a call
\* returns or writes is a todo whose user_id is u.
C23_TodosIsolatedPerUser ==
    \A u \in 1..MaxUsers :
        /\ \A st \in TodoStatusFilters :
               LET page == get_todos(todos, u, st, None, None)
               IN  /\ \A d \in page.todos : d.user_id = u
                   /\ page.total = Cardinality(page.todos)
        /\ \A id \in TodoIds :
               LET other == \E todo \in todos :
                                todo.id = id.n /\ todo.user_id # u
                   calls == {update_todo(todos, u, id, d, now) :
                                 d \in TodoUpdates}
                            \cup {delete_todo(todos, u, id, now),
                                  mark_completed(todos, u, id, now),
                                  Refused(todos,
                                          get_todo_by_id(todos, u, id))}
               IN  \A call \in calls :
                       /\ other => /\ call.res = TodoNotFound
                                   /\ call.todos = todos
                       /\ call.res.kind = "ok" => call.res.todo.user_id = u
                       /\ \A todo \in todos :
                              todo.user_id # u => todo \in call.todos
                       /\ \A todo \in call.todos :
                              todo.user_id # u => todo \in todos

\* two users each own a live todo, one of them changed by its owner, and
\* each user's list holds exactly the own one
C23_Witness ==
    \E t1, t2 \in todos :
        /\ t1.user_id # t2.user_id
        /\ t1.deleted_at = NULL
        /\ t2.deleted_at = NULL
        /\ t1.title = "c"
        /\ Authenticated(t1.user_id)
        /\ Authenticated(t2.user_id)
        /\ get_todos(todos, t1.user_id, None, None, None).todos
               = {TodoDict(t1)}
        /\ get_todo_by_id(todos, t1.user_id, [fmt |-> "uuid", n |-> t2.id])
               = TodoNotFound
        /\ get_todo_by_id(todos, t2.user_id, [fmt |-> "uuid", n |-> t2.id])
               = TodoOk(t2)

\* C24: deletion is a soft delete that every query respects: a delete_todo
\* that succeeds leaves the row in the table with deleted_at set, and while
\* a row has deleted_at set, get_todo_by_id, update_todo, mark_completed
\* and delete_todo on it answer TODO_NOT_FOUND and change nothing, get_todos
\* neither lists nor counts it, and no step changes it (it goes only with
\* its user).
C24_SoftDeleteRespected ==
    /\ [](\A todo \in todos :
              todo.deleted_at # NULL =>
                  LET u == todo.user_id
                      id == [fmt |-> "uuid", n |-> todo.id]
                      live == {x \in todos :
                                   x.user_id = u /\ x.deleted_at = NULL}
                  IN  /\ get_todo_by_id(todos, u, id) = TodoNotFound
                      /\ \A d \in TodoUpdates :
                             update_todo(todos, u, id, d, now)
                                 = Refused(todos, TodoNotFound)
                      /\ mark_completed(todos, u, id, now)
                             = Refused(todos, TodoNotFound)
                      /\ delete_todo(todos, u, id, now)
                             = Refused(todos, TodoNotFound)
                      /\ \A st \in TodoStatusFilters :
                             LET page == get_todos(todos, u, st, None, None)
                             IN  /\ \A d \in page.todos : d.id # todo.id
                                 /\ page.total <= Cardinality(live))
    /\ [][\A todo \in todos :
              /\ todo.deleted_at # NULL =>
                     \/ todo \in todos'
                     \/ ~\E u \in users' : u.id = todo.user_id
              /\ (/\ todo.deleted_at = NULL
                  /\ \E x \in todos' :
                         x.id = todo.id /\ x.deleted_at # NULL) =>
                     [todo EXCEPT !.deleted_at = now, !.updated_at = now]
                         \in todos']_vars

\* a todo was soft-deleted at a later instant than it was made, its row is
\* in the table, its owner has another, live todo, and only that one is
\* listed
C24_Witness ==
    \E gone, live \in todos :
        /\ gone.user_id = live.user_id
        /\ Authenticated(gone.user_id)
        /\ gone.deleted_at # NULL
        /\ gone.deleted_at > gone.created_at
        /\ live.deleted_at = NULL
        /\ get_todos(todos, gone.user_id, None, None, None)
               = [todos |-> {TodoDict(live)}, total |-> 1]
        /\ delete_todo(todos, gone.user_id,
                       [fmt |-> "uuid", n |-> gone.id], now).res
               = TodoNotFound

\* C25: console app: every successful create_task returns a task whose id
\* differs from the id of every task created before it in the session, so
\* that no id is used twice, not even after its task was deleted.
C25_CreatedIdsDistinct ==
    \A i, j \in 1..Len(createdIds) :
        i # j => createdIds[i] # createdIds[j]

\* C26: console app: completion is one-way and mark_complete is idempotent:
\* no step changes the completed flag of a stored task (the task stored
\* under an id) from True to False, and mark_complete on a completed task
\* succeeds with the "already marked as complete" message, shown by
\* display_info, and changes nothing.
C26_CompletionOneWay ==
    /\ [](\A task \in tasks :
              task.completed =>
                  /\ mark_complete(tasks, task.id)
                         = TaskResult(TRUE, AlreadyComplete, task, tasks)
                  /\ handle_mark_complete(tasks, task.id).display
                         = "display_info"
                  /\ handle_mark_complete(tasks, task.id).tasks = tasks)
    /\ [][\A task \in tasks, after \in tasks' :
              (task.id = after.id /\ task.completed) =>
                  after.completed]_vars

\* C35: console app: create_task never overwrites or removes an existing
\* task: a create_task that succeeds keeps every task that was stored and
\* adds one, so that after k successful calls and no delete get_all_tasks
\* returns k tasks, each as it was created.
C35_CreateKeepsExistingTasks ==
    [][createdIds' # createdIds =>
           /\ tasks \subseteq tasks'
           /\ Cardinality(get_all_tasks(tasks').tasks)
                  = Cardinality(get_all_tasks(tasks).tasks) + 1]_vars

\* the fields of a todo a request can set
TodoFields ==
    {"title", "description", "status", "priority", "due_date", "category"}

\* C34: update_todo is a partial update in which an explicit null removes a
\* value: for every live todo and every body its owner sends, the fields
\* the body does not hold keep their stored values in the todo that is
\* returned and stored, and a body holding "due_date": null leaves the todo
\* with no due date.
C34_PartialUpdateNullRemoves ==
    \A todo \in todos :
        todo.deleted_at = NULL =>
            \A body \in TodoUpdateBodies :
                LET r == update_todo(todos, todo.user_id,
                                     [fmt |-> "uuid", n |-> todo.id],
                                     ParseTodoUpdate(body), now)
                IN  /\ r.res.kind = "ok"
                    /\ \A f \in TodoFields \ body.given :
                           r.res.todo[f] = todo[f]
                    /\ \E x \in r.todos : TodoDict(x) = r.res.todo
                    /\ ("due_date" \in body.given /\ body.due_date = NULL)
                           => r.res.todo.due_date = NULL

\* C33: the get_current_user dependency fails closed: without an
\* Authorization header (or without bearer credentials in it), with a token
\* that is malformed, signed with another key, expired or of the wrong
\* type, with a token whose user is not stored, and when resolving the user
\* raises, it raises HTTP 401 and returns no user; a user is returned only
\* for a verified access token, and it is the stored user of its sub claim.
C33_DependencyFailsClosed ==
    \A header \in AuthorizationHeaders, raised \in SelectFailures :
        LET r == deps_get_current_user(users, header, now, raised)
            token == header.credentials
            accepted == /\ header.scheme = "Bearer"
                        /\ verify_access_token(token, now).ok
                        /\ raised = ""
                        /\ \E u \in users : u.id = token.sub
        IN  /\ ~accepted => /\ r.kind = "http"
                            /\ r.status = 401
                            /\ r.user = NoUser
            /\ accepted => /\ r.kind = "ok"
                           /\ \E u \in users : /\ u.id = token.sub
                                               /\ r.user = PublicUser(u)

\* an expired access token and a refresh token that still verifies are both
\* answered AUTH_FAILED, a request without header MISSING_AUTH_HEADER, a
\* failing select AUTH_FAILED, while a fresh access token is accepted
C33_Witness ==
    \E t1, t2, t3 \in IssuedTokens :
        /\ t1.type = "access"
        /\ decode_token(t1, now).why = "expired"
        /\ t2.type = "refresh"
        /\ verify_refresh_token(t2, now).ok
        /\ t3.type = "access"
        /\ deps_get_current_user(users, AuthorizationHeader("Bearer", t1),
                                 now, "").code = "AUTH_FAILED"
        /\ deps_get_current_user(users, AuthorizationHeader("Bearer", t2),
                                 now, "").code = "AUTH_FAILED"
        /\ deps_get_current_user(users, AuthorizationHeader("", NoToken),
                                 now, "") = MissingAuthHeader
        /\ deps_get_current_user(users, AuthorizationHeader("Bearer", t3),
                                 now, "").kind = "ok"
        /\ deps_get_current_user(users, AuthorizationHeader("Bearer", t3),
                                 now, "connection is closed").status = 401

\* C32: no two stored users ever share an email, and a register_user call
\* that finds, when it commits, the email stored by a call that ran
\* meanwhile fails with EMAIL_ALREADY_EXISTS and stores nothing, while a
\* call that finds the email still free succeeds: of two concurrent calls
\* for one email exactly one succeeds, in every interleaving of their
\* existence checks and inserts.
C32_ConcurrentRegisterOneWins ==
    /\ [](\A u1, u2 \in users : u1.email = u2.email => u1 = u2)
    /\ [][\A p \in Procs :
              (registering[p].pc = "added" /\ registering'[p].pc = "idle") =>
                  IF \E u \in users : u.email = registering[p].email
                  THEN /\ registering'[p].res = EmailAlreadyExists
                       /\ users' = users
                  ELSE /\ registering'[p].res.kind = "ok"
                       /\ \E u \in users' \ users : u.email = registering[p].email]_vars

\* the sessions table with the row s held under another user_id
SessionUnder(ss, s, user_id) ==
    (ss \ {s}) \cup {[s EXCEPT !.user_id = user_id]}

\* C31: sessions and tokens never move between users: every stored session
\* carries a refresh token and an access token whose sub is the session's
\* user_id, a session created by refresh_tokens has the user_id of the
\* presented session, and a refresh token whose sub differs from the
\* user_id of the session that stores the token value is rejected.
C31_SessionsStayWithTheirUser ==
    /\ \A s \in sessions :
           /\ s.refresh_token.sub = s.user_id
           /\ s.access_token.sub = s.user_id
           /\ s.rotated_from # 0 =>
                  \E o \in sessions : /\ o.id = s.rotated_from
                                      /\ o.user_id = s.user_id
                                      /\ o.refresh_token.sub = s.user_id
    /\ \A s \in sessions, user_id \in 1..MaxUsers :
           user_id # s.user_id =>
               LET r == refresh_check(SessionUnder(sessions, s, user_id),
                                      s.refresh_token, now)
               IN  /\ r # NoResult
                   /\ verify_refresh_token(s.refresh_token, now).ok
                          => r = InvalidRefreshToken

\* two users are stored, each with a session of their own, the second
\* user's session was created by refresh_tokens and is accepted as it is
\* stored, and rejected when the row is held under the first user
C31_Witness ==
    \E s1, s2 \in sessions :
        /\ s1.user_id # s2.user_id
        /\ \E u1, u2 \in users : u1.id = s1.user_id /\ u2.id = s2.user_id
        /\ s2.rotated_from # 0
        /\ refresh_check(sessions, s2.refresh_token, now) = NoResult
        /\ refresh_check(SessionUnder(sessions, s2, s1.user_id),
                         s2.refresh_token, now) = InvalidRefreshToken

====
